---- MODULE Spec2Model ----
(***************************************************************************)
(* vita: recursive directory walker that prints every file it meets, with  *)
(* a text/binary classification of a sampled prefix (POSIX build).         *)
(*                                                                         *)
(* Strings are sequences of one-character strings, byte buffers are        *)
(* sequences of integers 0..255.  The file system maps a node (a sequence  *)
(* of path components) to what is stored there.                            *)
(***************************************************************************)
EXTENDS Integers, Sequences, FiniteSets, TLC

VARIABLES argv, fs, pc, optind, opts, output_file_path, out, normalized_root,
          stack, stdout, stderr, outbuf, exit_code, log

vars == <<argv, fs, pc, optind, opts, output_file_path, out, normalized_root,
          stack, stdout, stderr, outbuf, exit_code, log>>

(***************************************************************************)
(* Bounds of the model.                                                    *)
(***************************************************************************)
\* longest file content drawn for a direct call of print_file_content
MaxLen == 4
\* deepest directory level (root = 0) of the trees the walk is run on
MaxTreeDepth == 2
\* largest value given to -d on the trees the walk is run on
MaxDepthArg == 2
\* most options on a command line
MaxOpts == 2

(***************************************************************************)
(* Program constants.                                                      *)
(***************************************************************************)
BINARY_CHECK_BYTES == 2048
BUFFER_SIZE == 1024
MAX_PATH_LENGTH == 4096
MAX_OUTPUT_FILE == 256
RULE_WIDTH == 80
EXIT_SUCCESS == 0
EXIT_FAILURE == 1

(***************************************************************************)
(* Sequence helpers.                                                       *)
(***************************************************************************)
Min(a, b) == IF a < b THEN a ELSE b

Take(s, n) == SubSeq(s, 1, Min(n, Len(s)))

Drop(s, n) == SubSeq(s, Min(n, Len(s)) + 1, Len(s))

Last(s) == s[Len(s)]

Front(s) == SubSeq(s, 1, Len(s) - 1)

Range(s) == {s[i] : i \in DOMAIN s}

RECURSIVE SeqsUpTo(_, _)
SeqsUpTo(S, n) ==
    IF n = 0 THEN {<<>>}
    ELSE LET shorter == SeqsUpTo(S, n - 1)
         IN shorter \cup {Append(s, x) : s \in {t \in shorter : Len(t) = n - 1}, x \in S}

RECURSIVE Flatten(_)
Flatten(ss) == IF ss = <<>> THEN <<>> ELSE Head(ss) \o Flatten(Tail(ss))

(***************************************************************************)
(* C integer and character helpers.                                        *)
(***************************************************************************)
\* a & b on non-negative integers
RECURSIVE BitAnd(_, _)
BitAnd(a, b) ==
    IF a = 0 \/ b = 0 THEN 0
    ELSE (a % 2) * (b % 2) + 2 * BitAnd(a \div 2, b \div 2)

\* isprint() in the "C" locale (the program never calls setlocale)
isprint(c) == 32 <= c /\ c <= 126

(***************************************************************************)
(* file.c: the classifier.                                                 *)
(***************************************************************************)
\* the loop of is_valid_utf8 from 1-based position i
RECURSIVE utf8_from(_, _)
utf8_from(buf, i) ==
    LET len == Len(buf) IN
    IF i > len THEN 1
    ELSE IF buf[i] <= 127 THEN utf8_from(buf, i + 1)
    ELSE IF BitAnd(buf[i], 224) = 192 THEN
        IF i + 1 > len \/ BitAnd(buf[i + 1], 192) # 128 THEN 0
        ELSE utf8_from(buf, i + 2)
    ELSE IF BitAnd(buf[i], 240) = 224 THEN
        IF i + 2 > len \/ BitAnd(buf[i + 1], 192) # 128
                       \/ BitAnd(buf[i + 2], 192) # 128 THEN 0
        ELSE utf8_from(buf, i + 3)
    ELSE IF BitAnd(buf[i], 248) = 240 THEN
        IF i + 3 > len \/ BitAnd(buf[i + 1], 192) # 128
                       \/ BitAnd(buf[i + 2], 192) # 128
                       \/ BitAnd(buf[i + 3], 192) # 128 THEN 0
        ELSE utf8_from(buf, i + 4)
    ELSE 0

\* the same loop with the truncation test of the 3-byte case off by one
RECURSIVE utf8_from_off_by_one(_, _)
utf8_from_off_by_one(buf, i) ==
    LET len == Len(buf) IN
    IF i > len THEN 1
    ELSE IF buf[i] <= 127 THEN utf8_from_off_by_one(buf, i + 1)
    ELSE IF BitAnd(buf[i], 224) = 192 THEN
        IF i + 1 > len \/ BitAnd(buf[i + 1], 192) # 128 THEN 0
        ELSE utf8_from_off_by_one(buf, i + 2)
    ELSE IF BitAnd(buf[i], 240) = 224 THEN
        IF i + 3 > len \/ BitAnd(buf[i + 1], 192) # 128
                       \/ BitAnd(buf[i + 2], 192) # 128 THEN 0
        ELSE utf8_from_off_by_one(buf, i + 3)
    ELSE IF BitAnd(buf[i], 248) = 240 THEN
        IF i + 3 > len \/ BitAnd(buf[i + 1], 192) # 128
                       \/ BitAnd(buf[i + 2], 192) # 128
                       \/ BitAnd(buf[i + 3], 192) # 128 THEN 0
        ELSE utf8_from_off_by_one(buf, i + 4)
    ELSE 0

is_valid_utf8_off_by_one(buf) == utf8_from_off_by_one(buf, 1)

is_valid_utf8(buf) == utf8_from(buf, 1)

\* the loop of is_valid_shift_jis from 1-based position i
RECURSIVE sjis_from(_, _)
sjis_from(buf, i) ==
    LET len == Len(buf) IN
    IF i > len THEN 1
    ELSE LET c == buf[i] IN
        IF c <= 127 \/ (161 <= c /\ c <= 223) THEN sjis_from(buf, i + 1)
        ELSE IF (129 <= c /\ c <= 159) \/ (224 <= c /\ c <= 239) THEN
            IF i + 1 > len THEN 0
            ELSE LET c2 == buf[i + 1] IN
                IF ~((64 <= c2 /\ c2 <= 126) \/ (128 <= c2 /\ c2 <= 252)) THEN 0
                ELSE sjis_from(buf, i + 2)
        ELSE 0

is_valid_shift_jis(buf) == sjis_from(buf, 1)

\* the counting loop of is_binary from position i with non_printable = n:
\* -1 stands for the early "return 1" at a zero byte
RECURSIVE count_from(_, _, _)
count_from(buf, i, n) ==
    IF i > Len(buf) THEN n
    ELSE IF buf[i] = 0 THEN -1
    ELSE IF ~isprint(buf[i]) /\ buf[i] # 10 /\ buf[i] # 13 /\ buf[i] # 9
         THEN count_from(buf, i + 1, n + 1)
         ELSE count_from(buf, i + 1, n)

\* the threshold test with >= in place of >
ratio_exceeds_inclusive(non_printable, read_len) == 4 * non_printable >= read_len

\* (double)non_printable / (double)read_len > 0.25: both are at most 2048, so
\* the quotient is further than an ulp from 0.25 unless it is exactly 0.25
ratio_exceeds(non_printable, read_len) == 4 * non_printable > read_len

\* is_binary after the fread: buf is the sample
classify_sample(buf) ==
    LET read_len == Len(buf) IN
    IF is_valid_utf8(buf) = 1 THEN 0
    ELSE IF is_valid_shift_jis(buf) = 1 THEN 0
    ELSE LET non_printable == count_from(buf, 1, 0) IN
        IF non_printable = -1 THEN 1
        ELSE IF read_len > 0 /\ ratio_exceeds(non_printable, read_len) THEN 1
        ELSE 0

(***************************************************************************)
(* Paths and the file system.                                              *)
(***************************************************************************)
\* the working directory of the process, as a node and as getcwd() gives it
CwdNode == << <<"w">> >>

CwdString == <<"/", "w">>

\* the components of a path string, split at every '/'
RECURSIVE SplitFrom(_, _, _)
SplitFrom(s, done, cur) ==
    IF s = <<>> THEN Append(done, cur)
    ELSE IF Head(s) = "/" THEN SplitFrom(Tail(s), Append(done, cur), <<>>)
    ELSE SplitFrom(Tail(s), done, Append(cur, Head(s)))

Split(s) == SplitFrom(s, <<>>, <<>>)

RECURSIVE WalkComponents(_, _)
WalkComponents(node, comps) ==
    IF comps = <<>> THEN node
    ELSE LET c == Head(comps) IN
        IF c = <<>> \/ c = <<".">> THEN WalkComponents(node, Tail(comps))
        ELSE IF c = <<".", ".">>
             THEN WalkComponents(IF node = <<>> THEN node ELSE Front(node), Tail(comps))
             ELSE WalkComponents(Append(node, c), Tail(comps))

\* the node the kernel resolves a path string to
Resolve(path) ==
    WalkComponents(IF path # <<>> /\ path[1] = "/" THEN <<>> ELSE CwdNode, Split(path))

RECURSIVE Join(_)
Join(node) == IF node = <<>> THEN <<>> ELSE <<"/">> \o Head(node) \o Join(Tail(node))

\* the canonical absolute string of a node
Canonical(node) == IF node = <<>> THEN <<"/">> ELSE Join(node)

Exists(f, node) == node \in DOMAIN f

\* stat(): "dir", "file" or "fail"
Stat(f, path) ==
    LET node == Resolve(path) IN
    IF path = <<>> \/ ~Exists(f, node) \/ f[node].kind = "nostat" THEN "fail"
    ELSE f[node].kind

\* opendir() succeeds
CanOpenDir(f, path) ==
    LET node == Resolve(path) IN
    path # <<>> /\ Exists(f, node) /\ f[node].kind = "dir" /\ f[node].ok

\* fopen(path, "r") succeeds
CanRead(f, path) ==
    LET node == Resolve(path) IN
    path # <<>> /\ Exists(f, node) /\ f[node].kind = "file" /\ f[node].ok

\* fopen(path, "w") succeeds: the file can be truncated, or created in a directory
CanWrite(f, path) ==
    LET node == Resolve(path) IN
    /\ path # <<>> /\ node # <<>>
    /\ IF Exists(f, node) THEN f[node].kind = "file" /\ f[node].ok
       ELSE Exists(f, Front(node)) /\ f[Front(node)].kind = "dir" /\ f[Front(node)].ok

\* the names readdir() yields for a directory, "." and ".." aside
Children(f, node) ==
    {Last(n) : n \in {m \in DOMAIN f : Len(m) = Len(node) + 1 /\ Front(m) = node}}

File(bytes, readable) == [kind |-> "file", ok |-> readable, content |-> bytes]

Dir(openable) == [kind |-> "dir", ok |-> openable, content |-> <<>>]

NoStat == [kind |-> "nostat", ok |-> FALSE, content |-> <<>>]

(***************************************************************************)
(* utils.c                                                                 *)
(***************************************************************************)
\* snprintf into a char[size]: at most size - 1 characters are kept
snprintf(size, s) == Take(s, size - 1)

RECURSIVE StripSlashes(_)
StripSlashes(s) ==
    IF s # <<>> /\ (Last(s) = "/" \/ Last(s) = "\\") THEN StripSlashes(Front(s)) ELSE s

normalize_path(path) ==
    StripSlashes([i \in DOMAIN path |-> IF path[i] = "\\" THEN "/" ELSE path[i]])

\* normalize_path without the trailing-slash loop
normalize_path_keeps_slash(path) ==
    [i \in DOMAIN path |-> IF path[i] = "\\" THEN "/" ELSE path[i]]

\* one fprintf: k names the format, p its %s path argument, b the bytes of a
\* %s buffer argument
Item(k, p, b) == [k |-> k, p |-> p, b |-> b]

RuleLine(c) == Item("rule", [i \in 1..RULE_WIDTH |-> c], <<>>)

Header(path) == <<RuleLine("-"), Item("path:", path, <<>>), RuleLine("-")>>

\* the three printf of print_usage
print_usage == <<Item("usage", <<>>, <<>>), Item("usage-options", <<>>, <<>>),
                 Item("usage-help", <<>>, <<>>)>>

\* is_binary: -1 when the file cannot be opened, else the verdict on the
\* first BINARY_CHECK_BYTES bytes
is_binary(f, path) ==
    IF ~CanRead(f, path) THEN -1
    ELSE classify_sample(Take(f[Resolve(path)].content, BINARY_CHECK_BYTES))

\* fgets(buffer, size, fp): the bytes stored, i.e. up to size - 1 bytes,
\* stopping after the first newline
RECURSIVE fgets_from(_, _, _)
fgets_from(rest, size, got) ==
    IF rest = <<>> \/ Len(got) = size - 1 THEN got
    ELSE IF Head(rest) = 10 THEN Append(got, 10)
    ELSE fgets_from(Tail(rest), size, Append(got, Head(rest)))

fgets(rest, size) == fgets_from(rest, size, <<>>)

\* what "%s" prints of a buffer: the bytes before its first zero byte
RECURSIVE c_string(_)
c_string(buffer) ==
    IF buffer = <<>> \/ Head(buffer) = 0 THEN <<>>
    ELSE <<Head(buffer)>> \o c_string(Tail(buffer))

\* the fgets/fprintf loop over the unread rest of the file
RECURSIVE echo_lines(_)
echo_lines(rest) ==
    IF rest = <<>> THEN <<>>
    ELSE LET buffer == fgets(rest, BUFFER_SIZE) IN
        <<Item("%s", <<>>, c_string(buffer))>> \o echo_lines(Drop(rest, Len(buffer)))

CannotOpenFile(path) == Item("Cannot open file:", path, <<>>)

BinaryNotice == Item("This is binary file", <<>>, <<>>)

\* print_file_content with the header written only for files that open
print_file_content_no_header(f, path) ==
    LET bin == is_binary(f, path) IN
    IF bin = -1 THEN <<CannotOpenFile(path)>>
    ELSE IF bin = 1 THEN Header(path) \o <<BinaryNotice>>
    ELSE Header(path) \o echo_lines(f[Resolve(path)].content) \o <<Item("\n", <<>>, <<>>)>>

\* everything print_file_content(path, out) writes to out
print_file_content(f, path) ==
    LET bin == is_binary(f, path) IN
    Header(path) \o
    ( IF bin = -1 THEN <<CannotOpenFile(path)>>
      ELSE IF bin = 1 THEN <<BinaryNotice>>
      ELSE IF ~CanRead(f, path) THEN <<CannotOpenFile(path)>>
      ELSE echo_lines(f[Resolve(path)].content) \o <<Item("\n", <<>>, <<>>)>> )

(***************************************************************************)
(* main.c: the command line.  argv.options are the options in the order    *)
(* getopt_long meets them ("?" is an option it does not know), argv.dirs    *)
(* the positional arguments.                                               *)
(***************************************************************************)
Option(o, arg) == [o |-> o, arg |-> arg]

argc == 1 + Len(argv.options) + Len(argv.dirs)

Digits == <<"0", "1", "2", "3", "4", "5", "6", "7", "8", "9">>

IsDigit(c) == \E i \in DOMAIN Digits : Digits[i] = c

DigitValue(c) == (CHOOSE i \in DOMAIN Digits : Digits[i] = c) - 1

RECURSIVE atoi_digits(_, _)
atoi_digits(s, acc) ==
    IF s = <<>> \/ ~IsDigit(Head(s)) THEN acc
    ELSE atoi_digits(Tail(s), 10 * acc + DigitValue(Head(s)))

atoi(s) ==
    IF s # <<>> /\ Head(s) = "-" THEN 0 - atoi_digits(Tail(s), 0)
    ELSE IF s # <<>> /\ Head(s) = "+" THEN atoi_digits(Tail(s), 0)
    ELSE atoi_digits(s, 0)

\* the null pointer where a string is expected
NULL == <<"NULL">>

\* realpath(): the canonical name of an existing file, or NULL
realpath(f, path) ==
    IF Stat(f, path) = "fail" THEN NULL ELSE Canonical(Resolve(path))

\* the path main hands to traverse_directory as output_file_path
resolve_output_path(f, output_file) ==
    IF realpath(f, output_file) # NULL THEN realpath(f, output_file)
    ELSE normalize_path(snprintf(MAX_PATH_LENGTH, CwdString \o <<"/">> \o output_file))

\* what an fopen(path, "w") that succeeded leaves on disk
truncate(f, path) ==
    LET node == Resolve(path) IN
    [n \in DOMAIN f \cup {node} |-> IF n = node THEN File(<<>>, TRUE) ELSE f[n]]

\* the stream behind the FILE *out of main
OutStream == IF out = "file" THEN outbuf ELSE stdout

\* the history of the run: what was done (ev) to which path (p), at which
\* depth (d), when the stream held `at` items
Event(ev, p, d) == [ev |-> ev, p |-> p, d |-> d, at |-> Len(OutStream)]

\* fprintf(out, ...) of the given items, leaving the other stream alone
WriteOut(items) ==
    IF out = "file" THEN outbuf' = outbuf \o items /\ stdout' = stdout
    ELSE stdout' = stdout \o items /\ outbuf' = outbuf

\* a return from main that always reports success
ExitAlwaysSuccess(code) == exit_code' = 0 /\ pc' = "done"

\* return code; from main
Exit(code) == exit_code' = code /\ pc' = "done"

\* main, lines 13-16: no argument at all
MainNoArguments ==
    /\ pc = "start"
    /\ argc < 2
    /\ stdout' = stdout \o print_usage
    /\ Exit(EXIT_FAILURE)
    /\ UNCHANGED <<argv, fs, optind, opts, output_file_path, out, normalized_root,
                   stack, stderr, outbuf, log>>

\* main, lines 18-28: the defaults of the options
MainDefaults ==
    /\ pc = "start"
    /\ argc >= 2
    /\ opts' = [output_file |-> <<>>, max_depth |-> -1]
    /\ optind' = 1
    /\ pc' = "getopt"
    /\ UNCHANGED <<argv, fs, output_file_path, out, normalized_root, stack,
                   stdout, stderr, outbuf, exit_code, log>>

\* main, lines 30-58: one turn of the getopt_long loop
MainGetopt ==
    /\ pc = "getopt"
    /\ optind <= Len(argv.options)
    /\ LET opt == argv.options[optind] IN
        /\ optind' = optind + 1
        /\ CASE opt.o = "o" ->
                /\ opts' = [opts EXCEPT !.output_file = Take(opt.arg, MAX_OUTPUT_FILE - 1)]
                /\ UNCHANGED <<pc, exit_code, stdout, stderr>>
             [] opt.o = "d" ->
                /\ opts' = [opts EXCEPT !.max_depth = atoi(opt.arg)]
                /\ IF atoi(opt.arg) < 0
                   THEN /\ stderr' = Append(stderr, Item("Error: Invalid depth value", opt.arg, <<>>))
                        /\ Exit(EXIT_FAILURE)
                   ELSE UNCHANGED <<pc, exit_code, stderr>>
                /\ UNCHANGED stdout
             [] opt.o = "h" ->
                /\ stdout' = stdout \o print_usage
                /\ Exit(EXIT_SUCCESS)
                /\ UNCHANGED <<opts, stderr>>
             [] OTHER ->
                /\ stderr' = Append(stderr, Item("vita: unknown option", <<>>, <<>>))
                /\ stdout' = stdout \o print_usage
                /\ Exit(EXIT_FAILURE)
                /\ UNCHANGED opts
    /\ UNCHANGED <<argv, fs, output_file_path, out, normalized_root, stack, outbuf, log>>

\* main, lines 60-75: the directory argument
MainCheckDirectory ==
    /\ pc = "getopt"
    /\ optind > Len(argv.options)
    /\ IF argv.dirs = <<>>
       THEN /\ stderr' = Append(stderr, Item("Error: Directory path not specified.", <<>>, <<>>))
            /\ stdout' = stdout \o print_usage
            /\ Exit(EXIT_FAILURE)
       ELSE LET dir_path == argv.dirs[1] IN
            IF Stat(fs, dir_path) = "fail"
            THEN /\ stderr' = Append(stderr, Item("Error: Directory does not exist.", dir_path, <<>>))
                 /\ Exit(EXIT_FAILURE)
                 /\ UNCHANGED stdout
            ELSE IF Stat(fs, dir_path) # "dir"
            THEN /\ stderr' = Append(stderr, Item("Error: not a directory.", dir_path, <<>>))
                 /\ Exit(EXIT_FAILURE)
                 /\ UNCHANGED stdout
            ELSE /\ pc' = "output"
                 /\ UNCHANGED <<stdout, stderr, exit_code>>
    /\ UNCHANGED <<argv, fs, optind, opts, output_file_path, out, normalized_root,
                   stack, outbuf, log>>

\* main, lines 77-107: the output stream
MainOpenOutput ==
    /\ pc = "output"
    /\ IF opts.output_file # <<>>
       THEN IF /\ realpath(fs, opts.output_file) = NULL
               /\ Len(CwdString) + Len(opts.output_file) + 1 >= MAX_PATH_LENGTH
            THEN /\ stderr' = Append(stderr, Item("Error: Output file path is too long.", <<>>, <<>>))
                 /\ Exit(EXIT_FAILURE)
                 /\ UNCHANGED <<output_file_path, fs, out>>
            ELSE /\ output_file_path' = resolve_output_path(fs, opts.output_file)
                 /\ IF CanWrite(fs, opts.output_file)
                    THEN /\ fs' = truncate(fs, opts.output_file)
                         /\ out' = "file"
                         /\ pc' = "banner"
                         /\ UNCHANGED <<stderr, exit_code>>
                    ELSE /\ stderr' = Append(stderr, Item("Error: Cannot open output file:",
                                                          opts.output_file, <<>>))
                         /\ Exit(EXIT_FAILURE)
                         /\ UNCHANGED <<fs, out>>
       ELSE /\ out' = "stdout"
            /\ pc' = "banner"
            /\ UNCHANGED <<output_file_path, fs, stderr, exit_code>>
    /\ UNCHANGED <<argv, optind, opts, normalized_root, stack, stdout, outbuf, log>>

Frame(dir_path, depth) == [dir_path |-> dir_path, depth |-> depth, phase |-> "enter", todo |-> {}]

\* main, lines 109-117: the banner and the call of traverse_directory
MainBanner ==
    /\ pc = "banner"
    /\ LET root == normalize_path(snprintf(MAX_PATH_LENGTH, argv.dirs[1])) IN
        /\ normalized_root' = root
        /\ WriteOut(<<RuleLine("="), Item("root/", root, <<>>), RuleLine("=")>>)
        /\ stack' = <<Frame(root, 0)>>
        /\ log' = Append(log, Event("call", root, 0))
    /\ pc' = "walk"
    /\ UNCHANGED <<argv, fs, optind, opts, output_file_path, out, stderr, exit_code>>

\* main, lines 119-123: after traverse_directory has returned
MainFinish ==
    /\ pc = "walk"
    /\ stack = <<>>
    /\ Exit(EXIT_SUCCESS)
    /\ UNCHANGED <<argv, fs, optind, opts, output_file_path, out, normalized_root,
                   stack, stdout, stderr, outbuf, log>>

(***************************************************************************)
(* traverse.c: traverse_directory, one frame of `stack` per active call.   *)
(***************************************************************************)
Top == stack[Len(stack)]

\* a return that unwinds every active call instead of one
AbortWalk == stack' = <<>>

\* return from the innermost call
Return == stack' = Front(stack)

\* the test with <= in place of <
may_descend_one_more(depth, max_depth) == max_depth = -1 \/ depth <= max_depth

\* the test that forgets the unlimited case
may_descend_bounded_only(depth, max_depth) == depth < max_depth

\* the test that lets the loop call itself for a subdirectory
may_descend(depth, max_depth) == max_depth = -1 \/ depth < max_depth

\* a recursive call that passes its own depth on unchanged
next_depth_same(depth) == depth

\* the depth argument of the recursive call
next_depth(depth) == depth + 1

\* the entries readdir() may yield next: "." and ".." come first, the others
\* in any order
NextEntries(todo) ==
    IF <<".">> \in todo THEN {<<".">>}
    ELSE IF <<".", ".">> \in todo THEN {<<".", ".">>}
    ELSE todo

\* traverse_directory, lines 14-16 and 56-60: the depth guard and opendir
TraverseEnter ==
    /\ pc = "walk"
    /\ stack # <<>>
    /\ Top.phase = "enter"
    /\ IF opts.max_depth # -1 /\ Top.depth > opts.max_depth
       THEN /\ Return
            /\ log' = Append(log, Event("guard", Top.dir_path, Top.depth))
            /\ UNCHANGED <<stdout, outbuf>>
       ELSE IF ~CanOpenDir(fs, Top.dir_path)
       THEN /\ WriteOut(<<Item("Cannot open directory:", Top.dir_path, <<>>)>>)
            /\ log' = Append(log, Event("dirfail", Top.dir_path, Top.depth))
            /\ Return
       ELSE /\ stack' = [stack EXCEPT ![Len(stack)] =
                            [@ EXCEPT !.phase = "loop",
                                      !.todo = {<<".">>, <<".", ".">>}
                                               \cup Children(fs, Resolve(Top.dir_path))]]
            /\ log' = Append(log, Event("opendir", Top.dir_path, Top.depth))
            /\ UNCHANGED <<stdout, outbuf>>
    /\ UNCHANGED <<argv, fs, pc, optind, opts, output_file_path, out, normalized_root,
                   stderr, exit_code>>

\* traverse_directory, lines 63-89: one turn of the readdir loop
TraverseEntry ==
    /\ pc = "walk"
    /\ stack # <<>>
    /\ Top.phase = "loop"
    /\ \E name \in NextEntries(Top.todo) :
       \E path \in {normalize_path(snprintf(MAX_PATH_LENGTH,
                                            Top.dir_path \o <<"/">> \o name))} :
        LET rest == [stack EXCEPT ![Len(stack)] = [@ EXCEPT !.todo = @ \ {name}]]
        IN
        IF name = <<".">> \/ name = <<".", ".">>
        THEN /\ stack' = rest
             /\ log' = Append(log, Event("dot", name, Top.depth))
             /\ UNCHANGED <<stdout, stderr, outbuf>>
        ELSE IF Stat(fs, path) = "fail"
        THEN /\ stack' = rest
             /\ stderr' = Append(stderr, Item("stat:", <<>>, <<>>))
             /\ log' = Append(log, Event("statfail", path, Top.depth))
             /\ UNCHANGED <<stdout, outbuf>>
        ELSE IF Stat(fs, path) = "dir"
        THEN IF may_descend(Top.depth, opts.max_depth)
             THEN /\ stack' = Append(rest, Frame(path, next_depth(Top.depth)))
                  /\ log' = Append(log, Event("call", path, next_depth(Top.depth)))
                  /\ UNCHANGED <<stdout, stderr, outbuf>>
             ELSE /\ stack' = rest
                  /\ log' = Append(log, Event("nodescend", path, Top.depth))
                  /\ UNCHANGED <<stdout, stderr, outbuf>>
        ELSE IF path = output_file_path
        THEN /\ stack' = rest
             /\ log' = Append(log, Event("skip", path, Top.depth))
             /\ UNCHANGED <<stdout, stderr, outbuf>>
        ELSE /\ stack' = rest
             /\ WriteOut(print_file_content(fs, path))
             /\ log' = Append(log, Event("print", path, Top.depth))
             /\ UNCHANGED stderr
    /\ UNCHANGED <<argv, fs, pc, optind, opts, output_file_path, out, normalized_root,
                   exit_code>>

\* traverse_directory, line 90: readdir() gave NULL, closedir and return
TraverseReturn ==
    /\ pc = "walk"
    /\ stack # <<>>
    /\ Top.phase = "loop"
    /\ Top.todo = {}
    /\ Return
    /\ log' = Append(log, Event("return", Top.dir_path, Top.depth))
    /\ UNCHANGED <<argv, fs, pc, optind, opts, output_file_path, out, normalized_root,
                   stdout, stderr, outbuf, exit_code>>

\* a direct call print_file_content(path, stdout) on the one file of the tree
PrintFile ==
    /\ pc = "file"
    /\ stdout' = stdout \o print_file_content(fs, argv.dirs[1])
    /\ log' = Append(log, Event("print", argv.dirs[1], 0))
    /\ pc' = "done"
    /\ UNCHANGED <<argv, fs, optind, opts, output_file_path, out, normalized_root,
                   stack, stderr, outbuf, exit_code>>

(***************************************************************************)
(* Initial states: the command lines and directory trees the program is    *)
(* run on.  The process runs in /w, the tree to walk is /w/s.              *)
(***************************************************************************)
RootNode == << <<"w">>, <<"s">> >>

Base == (<<>> :> Dir(TRUE)) @@ (CwdNode :> Dir(TRUE))

NoFiles == [n \in {} |-> NoStat]

TextBytes == <<65, 10>>

\* every tree below `dir` with `levels` more directory levels: an entry "a"
\* that is a leaf, and an entry "b" that may carry the next level
RECURSIVE SubTrees(_, _)
SubTrees(dir, levels) ==
    LET a == Append(dir, <<"a">>)
        b == Append(dir, <<"b">>)
        aMaps == {a :> k : k \in {File(TextBytes, TRUE), File(<<>>, FALSE), Dir(FALSE), NoStat}}
        bLeaf == {NoFiles} \cup {b :> k : k \in {File(TextBytes, TRUE), Dir(FALSE), Dir(TRUE)}}
        bDeep == IF levels > 0
                 THEN {(b :> Dir(TRUE)) @@ t : t \in SubTrees(b, levels - 1)}
                 ELSE {}
    IN {x @@ y : x \in aMaps, y \in bLeaf \cup bDeep}

Trees ==
    {Base @@ (RootNode :> Dir(TRUE)) @@ t : t \in SubTrees(RootNode, MaxTreeDepth)}
    \cup {Base @@ (RootNode :> Dir(FALSE))}

DepthOptions == {<<>>} \cup {<<Option("d", <<Digits[n + 1]>>)>> : n \in 0..MaxDepthArg}

\* the tree the command-line variations are run on: a text file holding a
\* zero byte, a subdirectory with a binary file, and possibly an earlier
\* output file
NulTextBytes == <<65, 0, 66, 10>>

BinaryBytes == <<255, 1>>

FixedTree(old_output) ==
    Base @@ (RootNode :> Dir(TRUE))
         @@ (Append(RootNode, <<"a">>) :> File(NulTextBytes, TRUE))
         @@ (Append(RootNode, <<"d">>) :> Dir(TRUE))
         @@ (Append(Append(RootNode, <<"d">>), <<"c">>) :> File(BinaryBytes, TRUE))
         @@ (IF old_output THEN Append(RootNode, <<"o">>) :> File(TextBytes, TRUE)
             ELSE NoFiles)

OptionChoices ==
    { Option("o", <<"s", "/", "o">>),
      Option("o", <<"/", "w", "/", "s", "/", "o">>),
      Option("o", <<"o">>),
      Option("o", <<"/", "n", "/", "o">>),
      Option("d", <<"-", "1">>),
      Option("d", <<"0">>),
      Option("d", <<"1">>),
      Option("h", <<>>),
      Option("?", <<>>) }

DirChoices ==
    { <<>>,
      << <<"s">> >>,
      << <<"s", "/">> >>,
      << <<".", "/", "s">> >>,
      << <<"/", "w", "/", "s">> >>,
      << <<"/", "w", "/", "s", "/">> >>,
      << <<"/", "w", "/", "x">> >>,
      << <<"s", "/", "a">> >> }

InitProcess ==
    /\ pc = "start"
    /\ optind = 0
    /\ opts = [output_file |-> <<>>, max_depth |-> -1]
    /\ output_file_path = <<>>
    /\ out = "unset"
    /\ normalized_root = <<>>
    /\ stack = <<>>
    /\ stdout = <<>>
    /\ stderr = <<>>
    /\ outbuf = <<>>
    /\ exit_code = -1
    /\ log = <<>>

InitTrees ==
    /\ argv \in {[options |-> o, dirs |-> << <<"/", "w", "/", "s">> >>] : o \in DepthOptions}
    /\ fs \in Trees

InitCommandLines ==
    /\ argv \in {[options |-> o, dirs |-> d] :
                    o \in SeqsUpTo(OptionChoices, MaxOpts), d \in DirChoices}
    /\ fs \in {FixedTree(old) : old \in BOOLEAN}

Init == InitProcess /\ (InitTrees \/ InitCommandLines)

Next ==
    \/ MainNoArguments
    \/ MainDefaults
    \/ MainGetopt
    \/ MainCheckDirectory
    \/ MainOpenOutput
    \/ MainBanner
    \/ TraverseEnter
    \/ TraverseEntry
    \/ TraverseReturn
    \/ MainFinish

Spec == Init /\ [][Next]_vars

(***************************************************************************)
(* print_file_content called on one file, for every content up to MaxLen   *)
(* bytes over the byte values that tell the branches of the classifier     *)
(* apart.                                                                  *)
(***************************************************************************)
Bytes == {0, 1, 10, 65, 128, 195, 227, 241, 255}

FileNode == << <<"w">>, <<"f">> >>

InitFile ==
    /\ argv = [options |-> <<>>, dirs |-> << <<"f">> >>]
    /\ fs \in {Base @@ (FileNode :> File(bytes, TRUE)) : bytes \in SeqsUpTo(Bytes, MaxLen)}
              \cup {Base @@ (FileNode :> File(<<>>, FALSE))}
    /\ pc = "file"
    /\ optind = 0
    /\ opts = [output_file |-> <<>>, max_depth |-> -1]
    /\ output_file_path = <<>>
    /\ out = "stdout"
    /\ normalized_root = <<>>
    /\ stack = <<>>
    /\ stdout = <<>>
    /\ stderr = <<>>
    /\ outbuf = <<>>
    /\ exit_code = -1
    /\ log = <<>>

NextFile == PrintFile

FileSpec == InitFile /\ [][NextFile]_vars

(***************************************************************************)
(* Claims about the classifier and the echo of a text file (FileSpec).     *)
(***************************************************************************)
FilePath == argv.dirs[1]

\* the bytes of the file print_file_content was called on
Content == fs[FileNode].content

\* the sample is_binary reads of it
Sample == Take(Content, BINARY_CHECK_BYTES)

\* the call has returned for a file that could be opened
Printed == pc = "done" /\ CanRead(fs, FilePath)

\* what the call wrote after the three header lines
BodyWritten == SubSeq(stdout, 4, Len(stdout))

WroteBinary == Take(stdout, 3) = Header(FilePath) /\ BodyWritten = <<BinaryNotice>>

WroteText ==
    /\ Take(stdout, 3) = Header(FilePath)
    /\ BodyWritten # <<>>
    /\ Last(BodyWritten) = Item("\n", <<>>, <<>>)
    /\ \A i \in 1..(Len(BodyWritten) - 1) : BodyWritten[i].k = "%s"

\* the number of bytes that are neither printable nor newline, carriage return or tab
NoiseCount(s) ==
    Cardinality({i \in DOMAIN s : ~(32 <= s[i] /\ s[i] <= 126) /\ s[i] \notin {9, 10, 13}})

\* one well-formed UTF-8 encoded code point (Unicode, table 3-7)
WellFormedCodePoint(c) ==
    LET cont(b) == 128 <= b /\ b <= 191 IN
    \/ Len(c) = 1 /\ c[1] <= 127
    \/ Len(c) = 2 /\ 194 <= c[1] /\ c[1] <= 223 /\ cont(c[2])
    \/ /\ Len(c) = 3
       /\ \/ c[1] = 224 /\ 160 <= c[2] /\ c[2] <= 191
          \/ 225 <= c[1] /\ c[1] <= 236 /\ cont(c[2])
          \/ c[1] = 237 /\ 128 <= c[2] /\ c[2] <= 159
          \/ 238 <= c[1] /\ c[1] <= 239 /\ cont(c[2])
       /\ cont(c[3])
    \/ /\ Len(c) = 4
       /\ \/ c[1] = 240 /\ 144 <= c[2] /\ c[2] <= 191
          \/ 241 <= c[1] /\ c[1] <= 243 /\ cont(c[2])
          \/ c[1] = 244 /\ 128 <= c[2] /\ c[2] <= 143
       /\ cont(c[3]) /\ cont(c[4])

RECURSIVE WellFormedUtf8(_)
WellFormedUtf8(s) ==
    \/ s = <<>>
    \/ \E n \in 1..Min(4, Len(s)) : WellFormedCodePoint(Take(s, n)) /\ WellFormedUtf8(Drop(s, n))

\* C1: a sample holding a 0x00 byte is classified Binary, whatever else it
\* holds and whether or not it passes the UTF-8 or Shift-JIS validator
C1_ZeroByteIsBinary ==
    (Printed /\ 0 \in Range(Sample)) => (is_binary(fs, FilePath) = 1 /\ WroteBinary)

\* C5: a sample that is well-formed UTF-8 (the empty sample and printable
\* ASCII included) is classified Text
C5_Utf8IsText ==
    (Printed /\ WellFormedUtf8(Sample)) => (is_binary(fs, FilePath) = 0 /\ WroteText)

C5_Witness ==
    /\ Printed /\ WellFormedUtf8(Sample)
    /\ \E i \in DOMAIN Sample : Sample[i] >= 224
    /\ \E i \in DOMAIN Sample : Sample[i] = 65
    /\ WroteText

EchoedBytes == Flatten([i \in 1..(Len(BodyWritten) - 1) |-> BodyWritten[i].b])

\* C10: for a file classified Text, the bytes written between the header and
\* the closing newline are the bytes of the file, in order
C10_EchoIsExact ==
    (Printed /\ is_binary(fs, FilePath) = 0) => (WroteText /\ EchoedBytes = Content)

(***************************************************************************)
(* Claims about the walk (Spec, FairSpec).                                 *)
(***************************************************************************)
\* main has called traverse_directory
Walked == log # <<>>

Finished == pc = "done" /\ Walked

LogIndices(ev) == {i \in DOMAIN log : log[i].ev = ev}

\* the number of descent steps from the root of the walk to a node
TreeDepth(node) == Len(node) - Len(Resolve(normalized_root))

IsUnder(node, dir) == Len(node) > Len(dir) /\ SubSeq(node, 1, Len(dir)) = dir

\* the node of the file named by -o, once main has opened it
OutputNode == Resolve(opts.output_file)

\* the positions of the stream where the header of a record names `node`
RecordsOf(node) ==
    {i \in DOMAIN OutStream : OutStream[i].k = "path:" /\ Resolve(OutStream[i].p) = node}

\* the entries of a node that stat() reports as files / as directories
FilesIn(node) ==
    {Append(node, c) : c \in {x \in Children(fs, node) : fs[Append(node, x)].kind = "file"}}

DirsIn(node) ==
    {Append(node, c) : c \in {x \in Children(fs, node) : fs[Append(node, x)].kind = "dir"}}

\* C3: with max_depth = N >= 0 only directories at depth <= N are enumerated,
\* the depth passed down is the number of descent steps, every record is of a
\* file in such a directory, and once the walk is over every file directly in
\* an enumerated directory (the output file aside) has its record while no
\* subdirectory of a directory at depth N was entered
C3_DepthBound ==
    (Walked /\ opts.max_depth >= 0) =>
        /\ \A i \in LogIndices("opendir") :
              /\ log[i].d <= opts.max_depth
              /\ log[i].d = TreeDepth(Resolve(log[i].p))
        /\ \A i \in DOMAIN OutStream :
              OutStream[i].k = "path:" =>
                  TreeDepth(Front(Resolve(OutStream[i].p))) <= opts.max_depth
        /\ pc = "done" =>
              \A i \in LogIndices("opendir") :
                  LET dir == Resolve(log[i].p) IN
                  /\ \A file \in FilesIn(dir) :
                        (out = "file" /\ file = OutputNode) \/ RecordsOf(file) # {}
                  /\ log[i].d = opts.max_depth =>
                        \A sub \in DirsIn(dir) :
                            \A j \in DOMAIN log :
                                log[j].ev \in {"call", "opendir", "dirfail"}
                                    => Resolve(log[j].p) # sub

\* a walk with -d 1 over a tree three directories deep has ended
C3_Witness ==
    /\ Finished /\ opts.max_depth = 1
    /\ \E i \in LogIndices("opendir") : log[i].d = 1
    /\ \E i \in LogIndices("nodescend") : CanOpenDir(fs, log[i].p)
                                          /\ FilesIn(Resolve(log[i].p)) # {}
    /\ \E i \in LogIndices("opendir") :
          log[i].d = 1 /\ \E file \in FilesIn(Resolve(log[i].p)) : RecordsOf(file) # {}

\* the directories the walk can get into: every directory from the root down
\* to it can be opened
ReachableDirs ==
    {n \in DOMAIN fs :
        /\ n = Resolve(normalized_root) \/ IsUnder(n, Resolve(normalized_root))
        /\ \A k \in Len(Resolve(normalized_root))..Len(n) :
              fs[SubSeq(n, 1, k)].kind = "dir" /\ fs[SubSeq(n, 1, k)].ok}

EnumerationsOf(node) == {i \in LogIndices("opendir") : Resolve(log[i].p) = node}

EnumeratedOnce ==
    /\ \A n \in DOMAIN fs : Cardinality(EnumerationsOf(n)) <= 1
    /\ Finished => \A n \in ReachableDirs : Cardinality(EnumerationsOf(n)) = 1

\* the directories of the tree being walked
TreeDirs ==
    {n \in DOMAIN fs :
        /\ n = Resolve(normalized_root) \/ IsUnder(n, Resolve(normalized_root))
        /\ fs[n].kind = "dir"}

\* the steps a walk can take at most: for each directory the call, the
\* opendir, one turn of the loop for each entry with "." and "..", the return
StepBound ==
    Cardinality(UNION {{<<d, k>> : k \in 1..(Cardinality(Children(fs, d)) + 5)} : d \in TreeDirs})

\* the walk is not stuck: a call is at its start or in its loop, or main can go on
WalkCanStep == stack = <<>> \/ Top.phase = "enter" \/ Top.phase = "loop"

\* C4: with max_depth unset the walk ends (every step of it adds one event to
\* the log, whose length the tree bounds, and it is never stuck before main
\* returns), no directory is ever enumerated twice, and at the end every
\* reachable directory has been enumerated once
C4_VisitsEveryDirectoryOnce ==
    /\ [][(pc = "walk" /\ opts.max_depth = -1)
            => (pc' = "done" \/ Len(log') = Len(log) + 1)]_vars
    /\ []((pc = "walk" /\ opts.max_depth = -1) => (Len(log) <= StepBound /\ WalkCanStep))
    /\ []((Walked /\ opts.max_depth = -1) => EnumeratedOnce)

C4_Witness ==
    /\ Finished /\ opts.max_depth = -1
    /\ Cardinality(ReachableDirs) >= 4
    /\ \E n \in ReachableDirs : TreeDepth(n) = 2 /\ Cardinality(EnumerationsOf(n)) = 1
    /\ LogIndices("dirfail") # {}

\* the events that deal with an entry of the given kind
HandledAs(kind) ==
    IF kind = "file" THEN {"print", "skip"}
    ELSE IF kind = "dir" THEN {"call", "nodescend"}
    ELSE {"statfail"}

\* every entry of every directory that was opened has been dealt with after
\* the opendir
AllEntriesHandled ==
    \A i \in LogIndices("opendir") :
        \A c \in Children(fs, Resolve(log[i].p)) :
            LET entry == Append(Resolve(log[i].p), c) IN
            \E j \in DOMAIN log :
                j > i /\ log[j].ev \in HandledAs(fs[entry].kind) /\ Resolve(log[j].p) = entry

\* every call of traverse_directory has opened its directory or failed to
AllCallsAnswered ==
    \A i \in LogIndices("call") :
        \E j \in DOMAIN log :
            /\ j > i /\ log[j].p = log[i].p
            /\ log[j].ev = (IF CanOpenDir(fs, log[i].p) THEN "opendir" ELSE "dirfail")

\* C7: a directory or a file that cannot be opened gets its notice in the
\* stream at the point where it is met, every entry of every opened directory
\* is still dealt with, and the process exits 0
C7_SoftErrorsDoNotStopTheRun ==
    /\ \A i \in LogIndices("dirfail") :
          /\ log[i].at < Len(OutStream)
          /\ OutStream[log[i].at + 1] = Item("Cannot open directory:", log[i].p, <<>>)
    /\ \A i \in LogIndices("print") :
          ~CanRead(fs, log[i].p) =>
              SubSeq(OutStream, log[i].at + 1, log[i].at + 4)
                  = Header(log[i].p) \o <<CannotOpenFile(log[i].p)>>
    /\ Finished => (exit_code = 0 /\ AllCallsAnswered /\ AllEntriesHandled)

\* a directory two levels down could not be opened, a file could not be
\* opened, and entries of the root were dealt with after both
C7_Witness ==
    /\ Finished
    /\ \E i \in LogIndices("dirfail"), j \in LogIndices("print") :
          /\ log[i].d = 2
          /\ i < j /\ log[j].d = 0
    /\ \E i \in LogIndices("print"), j \in LogIndices("call") :
          /\ ~CanRead(fs, log[i].p)
          /\ i < j /\ log[j].d = log[i].d + 1

(***************************************************************************)
(* Claims about the command line (Spec).                                   *)
(***************************************************************************)
IsNegativeNumber(arg) ==
    /\ Len(arg) >= 2 /\ arg[1] = "-"
    /\ IsDigit(arg[2])
    /\ \E i \in 2..Len(arg) :
          /\ arg[i] \notin {"0"} /\ IsDigit(arg[i])
          /\ \A j \in 2..i : IsDigit(arg[j])

\* the option at position i ends main inside the getopt loop
StopsMain(i) ==
    \/ argv.options[i].o \in {"h", "?"}
    \/ argv.options[i].o = "d" /\ IsNegativeNumber(argv.options[i].arg)

\* the first such option, 0 if there is none
FirstStop ==
    IF \E i \in DOMAIN argv.options : StopsMain(i)
    THEN CHOOSE i \in DOMAIN argv.options :
            StopsMain(i) /\ \A j \in 1..(i - 1) : ~StopsMain(j)
    ELSE 0

UnknownOption == FirstStop > 0 /\ argv.options[FirstStop].o = "?"

NegativeDepth == FirstStop > 0 /\ argv.options[FirstStop].o = "d"

NoDirectory == FirstStop = 0 /\ argv.dirs = <<>>

BadRoot == FirstStop = 0 /\ argv.dirs # <<>> /\ Stat(fs, argv.dirs[1]) # "dir"

\* the argument of the last -o of the command line, <<>> if there is none
RequestedOutput ==
    LET os == {i \in DOMAIN argv.options : argv.options[i].o = "o"} IN
    IF os = {} THEN <<>>
    ELSE argv.options[CHOOSE i \in os : \A j \in os : j <= i].arg

OutputUnopenable ==
    /\ FirstStop = 0 /\ argv.dirs # <<>> /\ Stat(fs, argv.dirs[1]) = "dir"
    /\ RequestedOutput # <<>> /\ ~CanWrite(fs, RequestedOutput)

FatalError == UnknownOption \/ NegativeDepth \/ NoDirectory \/ BadRoot \/ OutputUnopenable

\* the file systems a run can start on: none of them holds an empty file
\* that can be read, which is what opening the output leaves behind
InitialFileSystems == Trees \cup {FixedTree(old) : old \in BOOLEAN}

\* the stream the records of this command line go to
SinkStream == IF opts.output_file # <<>> THEN outbuf ELSE stdout

\* C8 as stated: a fatal configuration error ends the run with exit code 1,
\* without a call of traverse_directory and with nothing written to the sink,
\* and a bad root or depth leaves the -o file alone
C8_FatalErrorsWriteNothing ==
    (pc = "done" /\ FatalError) =>
        /\ exit_code = 1
        /\ ~Walked
        /\ SinkStream = <<>>
        /\ (BadRoot \/ NegativeDepth) => fs \in InitialFileSystems

\* C8 amended: as above, but a missing directory argument and an unknown
\* option print the usage text on standard output; no banner, record or
\* notice is written to either stream
C8_FatalErrorsWriteNoRecord ==
    (pc = "done" /\ FatalError) =>
        /\ exit_code = 1
        /\ ~Walked
        /\ outbuf = <<>>
        /\ stdout = (IF UnknownOption \/ NoDirectory THEN print_usage ELSE <<>>)
        /\ (BadRoot \/ NegativeDepth) => fs \in InitialFileSystems

\* main has refused a root that is not a directory although the -o file
\* could have been opened
C8_Witness ==
    /\ pc = "done" /\ BadRoot /\ exit_code = 1
    /\ RequestedOutput # <<>> /\ CanWrite(fs, RequestedOutput)
    /\ opts.output_file = RequestedOutput

\* C2: the file named by -o is never handed to print_file_content, and so is
\* never opened for reading and never gets a record
C2_OutputFileNeverRead ==
    out = "file" =>
        /\ \A i \in LogIndices("print") : Resolve(log[i].p) # OutputNode
        /\ RecordsOf(OutputNode) = {}

(***************************************************************************)
(* Claims about the records of the walk (Spec).                            *)
(***************************************************************************)
\* where the record of the print event i ends in the stream
RecordEnd(i) == IF i < Len(log) THEN log[i + 1].at ELSE Len(OutStream)

RecordBody(i) == SubSeq(OutStream, log[i].at + 4, RecordEnd(i))

BodyAsClaimed(i) ==
    LET path == log[i].p
        body == RecordBody(i)
    IN
    IF ~CanRead(fs, path) THEN body = <<CannotOpenFile(path)>>
    ELSE IF is_binary(fs, path) = 1 THEN body = <<BinaryNotice>>
    ELSE /\ body # <<>>
         /\ Last(body) = Item("\n", <<>>, <<>>)
         /\ Flatten([k \in 1..(Len(body) - 1) |-> body[k].b]) = fs[Resolve(path)].content

\* C9: every file handed to print_file_content gets exactly one record: the
\* three header lines, then the notice its classification calls for or its
\* content and a newline, with nothing of another record in between
C9_OneRecordPerFile ==
    Walked =>
        \A i \in LogIndices("print") :
            /\ SubSeq(OutStream, log[i].at + 1, log[i].at + 3) = Header(log[i].p)
            /\ BodyAsClaimed(i)
            /\ Cardinality(RecordsOf(Resolve(log[i].p))) = 1

====
